---------------------------- MODULE Spec2Model ----------------------------
(***************************************************************************)
(* A model of combine_files.py: a directory of images and PDF files is     *)
(* merged into one output PDF.  Strings are sequences of one-character     *)
(* strings, a Path is the sequence of its components, the filesystem is a  *)
(* function from paths to nodes, and a PDF document is the sequence of its *)
(* pages.                                                                  *)
(***************************************************************************)
EXTENDS Integers, Sequences, FiniteSets, TLC

(***************************************************************************)
(* Bounds of the model.                                                    *)
(***************************************************************************)
\* the largest number of entries drawn into the input directory
MaxFiles == 2
\* the largest number of pages of an input PDF
MaxPages == 2
\* how often the same invocation is repeated on the same filesystem
MaxRuns == 2

(***************************************************************************)
(* Characters and strings.                                                 *)
(***************************************************************************)
\* the characters the model uses, in code point order
Alphabet ==
  << ".", "/", "B", "D", "F", "G", "J", "P", "_",
     "a", "b", "c", "d", "e", "f", "g", "h", "i", "j", "m", "n", "o", "p",
     "r", "s", "t", "u", "x", "z" >>

Ord(c) == CHOOSE i \in 1..Len(Alphabet) : Alphabet[i] = c

UpperCase == << "B", "D", "F", "G", "J", "P" >>
LowerCase == << "b", "d", "f", "g", "j", "p" >>

\* str.lower() on one character
LowerChar(c) ==
  IF \E i \in 1..Len(UpperCase) : UpperCase[i] = c
  THEN LowerCase[CHOOSE i \in 1..Len(UpperCase) : UpperCase[i] = c]
  ELSE c

\* str.lower()
Lower(s) == [i \in 1..Len(s) |-> LowerChar(s[i])]

\* s < t for two strings: the first differing character decides, a proper
\* prefix is smaller
StrLess(s, t) ==
  \E i \in 1..(Len(t)) :
    /\ i <= Len(s) + 1
    /\ \A j \in 1..(i - 1) : s[j] = t[j]
    /\ \/ i = Len(s) + 1
       \/ i <= Len(s) /\ Ord(s[i]) < Ord(t[i])

\* str.rfind("."): the last index of a dot, 0 when there is none (Python's
\* -1, shifted by the 1-based indexes)
RFindDot(s) ==
  IF \E i \in 1..Len(s) : s[i] = "."
  THEN CHOOSE i \in 1..Len(s) : s[i] = "." /\ \A j \in (i + 1)..Len(s) : s[j] # "."
  ELSE 0

(***************************************************************************)
(* pathlib.                                                                *)
(***************************************************************************)
\* Path(text): the components between slashes; empty components and "."
\* components are dropped ("out/" is out, "" is the current directory)
RECURSIVE SplitPath(_, _, _)
SplitPath(text, cur, acc) ==
  LET keep == IF cur = << >> \/ cur = << "." >> THEN acc ELSE Append(acc, cur)
  IN  IF text = << >> THEN keep
      ELSE IF Head(text) = "/" THEN SplitPath(Tail(text), << >>, keep)
      ELSE SplitPath(Tail(text), Append(cur, Head(text)), acc)

Path(text) == SplitPath(text, << >>, << >>)

\* Path.name: the last component, "" for the current directory
PathName(p) == IF p = << >> THEN << >> ELSE p[Len(p)]

\* Path.parent
PathParent(p) == IF p = << >> THEN << >> ELSE SubSeq(p, 1, Len(p) - 1)

\* Path.suffix: the name from its last dot on, when that dot is neither the
\* first nor the last character of the name
PathSuffix(p) ==
  LET name == PathName(p)
      i == RFindDot(name)
  IN  IF 1 < i /\ i < Len(name) THEN SubSeq(name, i, Len(name)) ELSE << >>

\* Path.__lt__: the component lists are compared, component by component
PathLess(p, q) ==
  \E i \in 1..Len(q) :
    /\ i <= Len(p) + 1
    /\ \A j \in 1..(i - 1) : p[j] = q[j]
    /\ \/ i = Len(p) + 1
       \/ i <= Len(p) /\ StrLess(p[i], q[i])

\* an argument typed PathLike is a str or a Path
StrArg(text) == [str |-> text]
PathArg(p) == [path |-> p]

ensure_path(path) ==
  IF "str" \in DOMAIN path THEN Path(path.str) ELSE path.path


(***************************************************************************)
(* Program constants.                                                      *)
(***************************************************************************)
\* DEFAULT_OUTPUT_FILENAME.format(name)
DEFAULT_OUTPUT_FILENAME(name) ==
  name \o << "_", "c", "o", "m", "b", "i", "n", "e", "d",
             "_", "o", "u", "t", "p", "u", "t", ".", "p", "d", "f" >>

valid_extensions ==
  { << ".", "p", "n", "g" >>, << ".", "j", "p", "e", "g" >>,
    << ".", "j", "p", "g" >>, << ".", "p", "d", "f" >> }

PdfExtension == << ".", "p", "d", "f" >>

(***************************************************************************)
(* The filesystem: a function from paths (relative to the current          *)
(* directory, << >>) to nodes.  A file holds a PDF document (its pages),   *)
(* an image, or bytes that are neither ("junk": a corrupt or truncated     *)
(* file).                                                                  *)
(***************************************************************************)
DirNode == [kind |-> "dir", fmt |-> "none", pages |-> << >>]
FileNode(fmt, pages) == [kind |-> "file", fmt |-> fmt, pages |-> pages]

\* one page of a document: the file it was made from, its place in that
\* file, and the resolution it was rasterized with (0 for a page that was
\* a PDF page from the start)
Page(src, idx, dpi) == [src |-> src, idx |-> idx, dpi |-> dpi]

\* the pages of an n-page PDF stored at path p
PdfPages(p, n) == [i \in 1..n |-> Page(p, i, 0)]

Exists(fs, p) == p \in DOMAIN fs
\* Path.is_dir(): False for a path that does not exist
is_dir(fs, p) == Exists(fs, p) /\ fs[p].kind = "dir"

\* the entries of a directory
Children(fs, d) == { p \in DOMAIN fs : Len(p) = Len(d) + 1 /\ PathParent(p) = d }

\* the sequences that hold every element of a set once
RECURSIVE Orders(_)
Orders(set) ==
  IF set = { } THEN { << >> }
  ELSE UNION { { << x >> \o o : o \in Orders(set \ { x }) } : x \in set }

\* the elements of a set, one after the other
RECURSIVE Enumerated(_)
Enumerated(set) ==
  IF set = { } THEN << >>
  ELSE LET x == CHOOSE y \in set : TRUE
       IN  << x >> \o Enumerated(set \ { x })

\* the orders in which Path.iterdir() may yield the entries: the
\* rearrangements of their positions
IterdirOrders(fs, d) == Orders(1..Cardinality(Children(fs, d)))

\* the entries as Path.iterdir() yields them in one of these orders
IterdirYield(fs, d, o) ==
  LET base == Enumerated(Children(fs, d))
  IN  [i \in 1..Len(o) |-> base[o[i]]]

\* the outcome of a call: a value, or the exception it raised
Ok(v) == [ok |-> TRUE, exc |-> "none", val |-> v]
Raise(e) == [ok |-> FALSE, exc |-> e, val |-> << >>]

\* how opening path p for reading ends
OpenRead(fs, p) ==
  IF ~Exists(fs, p) THEN "FileNotFoundError"
  ELSE IF fs[p].kind = "dir" THEN "IsADirectoryError"
  ELSE "none"

\* how opening path p for writing ends
OpenWrite(fs, p) ==
  IF p = << >> THEN "IsADirectoryError"
  ELSE IF ~Exists(fs, PathParent(p)) THEN "FileNotFoundError"
  ELSE IF fs[PathParent(p)].kind # "dir" THEN "NotADirectoryError"
  ELSE IF is_dir(fs, p) THEN "IsADirectoryError"
  ELSE "none"

\* the filesystem with the file at p created or replaced
WithFile(fs, p, node) ==
  [q \in DOMAIN fs \cup {p} |-> IF q = p THEN node ELSE fs[q]]

(***************************************************************************)
(* get_input_files.                                                        *)
(***************************************************************************)
\* the test of the generator expression
IsInputFile(file) == Lower(PathSuffix(file)) \in valid_extensions

\* the elements of a sequence that pass a test, in their order
RECURSIVE FilterInput(_)
FilterInput(seq) ==
  IF seq = << >> THEN << >>
  ELSE IF IsInputFile(Head(seq)) THEN << Head(seq) >> \o FilterInput(Tail(seq))
  ELSE FilterInput(Tail(seq))

\* p put into an ascending sequence, after the elements not greater than it
RECURSIVE Insert(_, _)
Insert(seq, p) ==
  IF seq = << >> THEN << p >>
  ELSE IF PathLess(p, Head(seq)) THEN << p >> \o seq
  ELSE << Head(seq) >> \o Insert(Tail(seq), p)

\* sorted(): a stable ascending sort
RECURSIVE sorted(_)
sorted(seq) ==
  IF seq = << >> THEN << >>
  ELSE Insert(sorted(SubSeq(seq, 1, Len(seq) - 1)), seq[Len(seq)])

\* how directory.iterdir() ends
Iterdir(fs, directory) ==
  IF ~Exists(fs, directory) THEN "FileNotFoundError"
  ELSE IF fs[directory].kind # "dir" THEN "NotADirectoryError"
  ELSE "none"

\* get_input_files without the test on the extension
get_input_files_unfiltered(fs, directory, order) ==
  IF Iterdir(fs, directory) # "none" THEN Raise(Iterdir(fs, directory))
  ELSE Ok(sorted(order))

\* get_input_files(directory), the directory being enumerated in order
get_input_files(fs, directory, order) ==
  IF Iterdir(fs, directory) # "none" THEN Raise(Iterdir(fs, directory))
  ELSE Ok(sorted(FilterInput(order)))

(***************************************************************************)
(* convert_image_to_pdf and pypdf.PdfReader.                               *)
(***************************************************************************)
\* convert_image_to_pdf(image_path, image_dpi): the pages of the PDF in the
\* buffer it returns
convert_image_to_pdf(fs, image_path, image_dpi) ==
  IF OpenRead(fs, image_path) # "none" THEN Raise(OpenRead(fs, image_path))
  ELSE IF fs[image_path].fmt # "image" THEN Raise("UnidentifiedImageError")
  ELSE Ok(<< Page(image_path, 1, image_dpi) >>)

\* pypdf.PdfReader(str(file)).pages
PdfReader(fs, file) ==
  IF OpenRead(fs, file) # "none" THEN Raise(OpenRead(fs, file))
  ELSE IF fs[file].fmt # "pdf" THEN Raise("PdfReadError")
  ELSE Ok(fs[file].pages)

\* the test of line 81
IsPdf(file) == Lower(PathSuffix(file)) = PdfExtension

\* FilePages with the PDF branch adding pages[0] alone, as the image branch
\* does
FilePagesFirstPageOnly(fs, file, image_dpi) ==
  IF IsPdf(file)
  THEN LET r == PdfReader(fs, file)
       IN  IF ~r.ok THEN r
           ELSE IF r.val = << >> THEN Raise("IndexError")
           ELSE Ok(<< r.val[1] >>)
  ELSE convert_image_to_pdf(fs, file, image_dpi)

\* FilePages with image_dpi not handed on, so that convert_image_to_pdf
\* uses its own default
FilePagesOwnDefaultDpi(fs, file, image_dpi) ==
  IF IsPdf(file) THEN PdfReader(fs, file)
  ELSE convert_image_to_pdf(fs, file, 300)

\* one iteration of the file loop: the pages it adds to the writer
FilePages(fs, file, image_dpi) ==
  IF IsPdf(file) THEN PdfReader(fs, file)
  ELSE convert_image_to_pdf(fs, file, image_dpi)

\* ResolveSavePath with the name of the save path in place of the input
\* directory's
ResolveSavePathOwnName(fs, directory, save_path) ==
  IF is_dir(fs, save_path)
  THEN Append(save_path, DEFAULT_OUTPUT_FILENAME(PathName(save_path)))
  ELSE save_path

\* lines 75-76
ResolveSavePath(fs, directory, save_path) ==
  IF is_dir(fs, save_path)
  THEN Append(save_path, DEFAULT_OUTPUT_FILENAME(PathName(directory)))
  ELSE save_path

(***************************************************************************)
(* The names the model draws its inputs from.                              *)
(***************************************************************************)
photos == << "p", "h", "o", "t", "o", "s" >>
out == << "o", "u", "t" >>
slash == << "/" >>

\* candidate entries of the input directory
a_png == << "a", ".", "p", "n", "g" >>
B_PDF == << "B", ".", "P", "D", "F" >>
c_pdf == << "c", ".", "p", "d", "f" >>
d_txt == << "d", ".", "t", "x", "t" >>
e_jpeg == << "e", ".", "j", "p", "e", "g" >>
f_JPG == << "f", ".", "J", "P", "G" >>
s_pdf == << "s", ".", "p", "d", "f" >>
dot_pdf == << ".", "p", "d", "f" >>
r_pdf == << "r", ".", "p", "d", "f" >>
z_pdf == << "z", ".", "p", "d", "f" >>
nodir == << "n", "o", "d", "i", "r" >>

\* what an entry of that name may be
Contents(p) ==
  LET name == PathName(p)
  IN  CASE name = a_png -> { FileNode("image", << >>), FileNode("junk", << >>) }
        [] name = B_PDF -> { FileNode("pdf", PdfPages(p, 1)) }
        [] name = c_pdf -> { FileNode("pdf", PdfPages(p, n)) : n \in 0..MaxPages }
        [] name = d_txt -> { FileNode("junk", << >>) }
        [] name = e_jpeg -> { FileNode("image", << >>) }
        [] name = f_JPG -> { FileNode("image", << >>) }
        [] name = s_pdf -> { DirNode }
        [] name = dot_pdf -> { FileNode("pdf", PdfPages(p, 1)) }

EntryNames == { a_png, B_PDF, c_pdf, d_txt, e_jpeg, f_JPG, s_pdf, dot_pdf }

\* the part of every initial filesystem that is not the input directory's
\* content: the current directory, the input directory, an output
\* directory and an earlier output file in it
BaseFs ==
  LET old == << out, r_pdf >>
  IN  (<< >> :> DirNode) @@ (<< photos >> :> DirNode) @@ (<< out >> :> DirNode)
        @@ (old :> FileNode("pdf", PdfPages(old, 1)))

\* the initial filesystems: the input directory holds at most MaxFiles of
\* the candidate entries
InitialFilesystems ==
  { BaseFs @@ content :
      content \in UNION { { c \in [{ << photos, n >> : n \in names } -> UNION { Contents(<< photos, n >>) : n \in names }] :
                              \A p \in DOMAIN c : c[p] \in Contents(p) } :
                          names \in { ns \in SUBSET EntryNames : Cardinality(ns) <= MaxFiles } } }

(***************************************************************************)
(* The state.  An optional value is the empty set or a singleton.          *)
(***************************************************************************)
VARIABLES
  fs,               \* the filesystem
  mode,             \* "cli": main() runs; "api": convert_files_to_pdf is called directly
  pc,               \* the place of the run
  runs,             \* the number of the current run of the same invocation
  argv,             \* the command line: [input, output, dpi], each optional
  stdin0,           \* standard input as the process finds it
  stdin,            \* the lines of standard input not yet read
  args,             \* main: the parsed arguments
  input_directory,  \* main: local
  output_pdf,       \* main: local
  prompts,          \* the prompts written so far
  stdout,           \* the result lines printed so far
  calls,            \* how often main has called convert_files_to_pdf
  call,             \* the arguments of convert_files_to_pdf: [directory, save_path, image_dpi]
  directory,        \* convert_files_to_pdf: local (optional)
  save_path,        \* convert_files_to_pdf: local (optional)
  image_dpi,        \* convert_files_to_pdf: parameter (optional until bound)
  pdf_writer,       \* the pages added to the PdfWriter
  input_files,      \* convert_files_to_pdf: local
  idx,              \* the position of the file loop in input_files
  pdf_reader,       \* the resource the local pdf_reader refers to (optional)
  pdf_bytes,        \* the resource the local pdf_bytes refers to (optional)
  live,             \* the resources acquired and not released
  exc,              \* the exception in flight, "none" without one
  ret,              \* the value convert_files_to_pdf returned (optional)
  fs0,              \* history: the filesystem when convert_files_to_pdf was entered
  written,          \* history: the paths this call opened for writing
  first             \* history: the number of pages the first run wrote (optional)

cli_vars == << argv, stdin0, stdin, args, input_directory, output_pdf, prompts, stdout, calls >>
frame_vars == << directory, save_path, image_dpi, pdf_writer, input_files, idx >>
res_vars == << pdf_reader, pdf_bytes, live >>
hist_vars == << fs0, written, first >>
vars == << fs, mode, pc, runs, call, exc, ret, cli_vars, frame_vars, res_vars, hist_vars >>

NoArgs == [input |-> { }, output |-> { }, dpi |-> { }]
NoCall == [directory |-> { }, save_path |-> { }, image_dpi |-> { }]

\* a resource: the file handle Image.open holds, the BytesIO buffer, or the
\* stream a PdfReader made from a file name reads
Resource(kind, file) == [kind |-> kind, file |-> file, run |-> runs]

(***************************************************************************)
(* Initial states: a direct call of convert_files_to_pdf on one of the     *)
(* initial filesystems, or a run of main.                                  *)
(***************************************************************************)
Dpis == { 72 }

\* the arguments (directory, save_path, image_dpi) of a direct call: a save
\* path that is an existing directory, an existing file, the input
\* directory itself, a new file in the input directory, a file in a
\* directory that does not exist, the current directory; an input directory
\* that does not exist; image_dpi given or left out
ApiCalls ==
  { << StrArg(photos \o slash), StrArg(out \o slash), { } >>,
    << StrArg(photos \o slash), StrArg(out \o slash), { 72 } >>,
    << PathArg(<< photos >>), PathArg(<< out, r_pdf >>), { 72 } >>,
    << PathArg(<< photos >>), PathArg(<< photos >>), { } >>,
    << StrArg(photos \o slash), StrArg(photos \o slash \o z_pdf), { 72 } >>,
    << StrArg(photos \o slash), StrArg(nodir \o slash \o r_pdf), { } >>,
    << StrArg(photos), StrArg(<< >>), { } >>,
    << StrArg(nodir), StrArg(out), { } >> }

CliFilesystems ==
  { f \in InitialFilesystems : DOMAIN f \subseteq DOMAIN BaseFs \cup { << photos, a_png >> } }

CliInputs == { { }, { << >> }, { photos } }
CliOutputs == { { }, { << >> }, { out }, { nodir \o slash \o r_pdf } }
CliStdins ==
  { << >>, << photos >>, << photos, out \o slash \o r_pdf >>, << nodir, out >> }

InitCommon ==
  /\ runs = 1
  /\ args = NoArgs
  /\ input_directory = { }
  /\ output_pdf = { }
  /\ prompts = << >>
  /\ stdout = << >>
  /\ calls = 0
  /\ directory = { }
  /\ save_path = { }
  /\ image_dpi = { }
  /\ pdf_writer = << >>
  /\ input_files = << >>
  /\ idx = 1
  /\ pdf_reader = { }
  /\ pdf_bytes = { }
  /\ live = { }
  /\ exc = "none"
  /\ ret = { }
  /\ fs0 = fs
  /\ written = { }
  /\ first = { }

InitApi ==
  /\ mode = "api"
  /\ pc = "enter"
  /\ fs \in InitialFilesystems
  /\ argv = NoArgs
  /\ stdin0 = << >>
  /\ stdin = << >>
  /\ \E c \in ApiCalls :
       call = [directory |-> { c[1] }, save_path |-> { c[2] }, image_dpi |-> c[3]]
  /\ InitCommon

InitCli ==
  /\ mode = "cli"
  /\ pc = "parse"
  /\ fs \in CliFilesystems
  /\ \E i \in CliInputs, o \in CliOutputs, r \in { { } } \cup { { n } : n \in Dpis } :
       argv = [input |-> i, output |-> o, dpi |-> r]
  /\ stdin0 \in CliStdins
  /\ stdin = stdin0
  /\ call = NoCall
  /\ InitCommon

Init == InitApi \/ InitCli

(***************************************************************************)
(* main.                                                                   *)
(***************************************************************************)
\* the default of --dpi
dpi_default == 300

\* the one element of a singleton
The(opt) == CHOOSE v \in opt : TRUE

\* a test for "is not None" in place of the truth value
TruthyNotNone(opt) == opt # { }

\* the truth value of an optional string: None and "" are false
Truthy(opt) == opt # { } /\ The(opt) # << >>

\* "except OSError" in place of "except Exception"
IsOSError(e) ==
  e \in { "FileNotFoundError", "NotADirectoryError", "IsADirectoryError", "OSError",
          "UnidentifiedImageError" }

\* whether "except Exception" catches an exception of class e:
\* KeyboardInterrupt derives from BaseException only
IsException(e) == e # "KeyboardInterrupt"

SuccessLine(path) == [text |-> "PDF created successfully: ", path |-> { path }, exc |-> "none"]
ErrorLine(e) == [text |-> "An error occurred: ", path |-> { }, exc |-> e]

\* parser.parse_args()
ParseArgs ==
  /\ pc = "parse"
  /\ args' = [input |-> argv.input, output |-> argv.output,
              dpi |-> IF argv.dpi = { } THEN { dpi_default } ELSE argv.dpi]
  /\ pc' = "main"
  /\ UNCHANGED << fs, mode, runs, call, exc, ret, argv, stdin0, stdin, input_directory,
                  output_pdf, prompts, stdout, calls, frame_vars, res_vars, hist_vars >>

\* the test of line 108 and, when it holds, lines 109-110
MainBranch ==
  /\ pc = "main"
  /\ IF Truthy(args.input) /\ Truthy(args.output)
     THEN /\ input_directory' = args.input
          /\ output_pdf' = args.output
          /\ pc' = "call"
     ELSE /\ pc' = "prompt_input"
          /\ UNCHANGED << input_directory, output_pdf >>
  /\ UNCHANGED << fs, mode, runs, call, exc, ret, argv, stdin0, stdin, args,
                  prompts, stdout, calls, frame_vars, res_vars, hist_vars >>

\* input(prompt): the prompt is written, then a line is read; end of input
\* raises EOFError, and the user's interrupt key raises KeyboardInterrupt
ReadLine(prompt, target, next) ==
  /\ prompts' = Append(prompts, prompt)
  /\ \/ /\ stdin # << >>
        /\ target' = { Head(stdin) }
        /\ stdin' = Tail(stdin)
        /\ pc' = next
        /\ UNCHANGED exc
     \/ /\ stdin = << >>
        /\ exc' = "EOFError"
        /\ pc' = "raised"
        /\ UNCHANGED << target, stdin >>
     \/ /\ exc' = "KeyboardInterrupt"
        /\ pc' = "raised"
        /\ UNCHANGED << target, stdin >>

\* line 112
PromptInput ==
  /\ pc = "prompt_input"
  /\ ReadLine("Input directory Path: ", input_directory, "prompt_output")
  /\ UNCHANGED << fs, mode, runs, call, ret, argv, stdin0, args, output_pdf,
                  stdout, calls, frame_vars, res_vars, hist_vars >>

\* line 113
PromptOutput ==
  /\ pc = "prompt_output"
  /\ ReadLine("Output PDF Path: ", output_pdf, "call")
  /\ UNCHANGED << fs, mode, runs, call, ret, argv, stdin0, args, input_directory,
                  stdout, calls, frame_vars, res_vars, hist_vars >>

\* line 115: the call
MainCall ==
  /\ pc = "call"
  /\ call' = [directory |-> { StrArg(The(input_directory)) },
              save_path |-> { StrArg(The(output_pdf)) },
              image_dpi |-> args.dpi]
  /\ calls' = calls + 1
  /\ pc' = "enter"
  /\ UNCHANGED << fs, mode, runs, exc, ret, argv, stdin0, stdin, args, input_directory,
                  output_pdf, prompts, stdout, frame_vars, res_vars, hist_vars >>

\* line 116
PrintSuccess ==
  /\ mode = "cli"
  /\ pc = "returned"
  /\ stdout' = Append(stdout, SuccessLine(The(ret)))
  /\ pc' = "exit"
  /\ UNCHANGED << fs, mode, runs, call, exc, ret, argv, stdin0, stdin, args, input_directory,
                  output_pdf, prompts, calls, frame_vars, res_vars, hist_vars >>

\* lines 117-118: an exception that is an Exception is printed; any other
\* leaves main
HandleException ==
  /\ mode = "cli"
  /\ pc = "raised"
  /\ IF IsException(exc)
     THEN /\ stdout' = Append(stdout, ErrorLine(exc))
          /\ exc' = "none"
          /\ pc' = "exit"
     ELSE /\ pc' = "escaped"
          /\ UNCHANGED << stdout, exc >>
  /\ UNCHANGED << fs, mode, runs, call, ret, argv, stdin0, stdin, args, input_directory,
                  output_pdf, prompts, calls, frame_vars, res_vars, hist_vars >>

(***************************************************************************)
(* convert_files_to_pdf.                                                   *)
(***************************************************************************)
\* the default of the parameter image_dpi
image_dpi_default == 300

\* lines 61-78: the parameters are bound, the paths normalized, the save
\* path resolved, the writer made
Enter ==
  /\ pc = "enter"
  /\ LET d == ensure_path(The(call.directory))
         s == ensure_path(The(call.save_path))
     IN  /\ directory' = { d }
         /\ save_path' = { ResolveSavePath(fs, d, s) }
  /\ image_dpi' = IF call.image_dpi = { } THEN { image_dpi_default } ELSE call.image_dpi
  /\ pdf_writer' = << >>
  /\ input_files' = << >>
  /\ idx' = 1
  /\ fs0' = fs
  /\ written' = { }
  /\ pc' = "scan"
  /\ UNCHANGED << fs, mode, runs, call, exc, ret, cli_vars, res_vars, first >>

\* line 79
Scan ==
  /\ pc = "scan"
  /\ \E o \in IterdirOrders(fs, The(directory)) :
       LET r == get_input_files(fs, The(directory), IterdirYield(fs, The(directory), o))
       IN  IF r.ok
           THEN /\ input_files' = r.val
                /\ pc' = "loop"
                /\ UNCHANGED exc
           ELSE /\ exc' = r.exc
                /\ pc' = "raised"
                /\ UNCHANGED input_files
  /\ UNCHANGED << fs, mode, runs, call, ret, cli_vars, directory, save_path, image_dpi,
                  pdf_writer, idx, res_vars, hist_vars >>

\* whether the file loop has a next file (line 80)
HasNext == idx <= Len(input_files)

\* lines 80-88: one iteration of the file loop
ProcessFile ==
  /\ pc = "loop"
  /\ HasNext
  /\ LET file == input_files[idx]
         r == FilePages(fs, file, The(image_dpi))
     IN  IF r.ok
         THEN /\ pdf_writer' = pdf_writer \o r.val
              /\ idx' = idx + 1
              /\ IF IsPdf(file)
                 THEN /\ pdf_reader' = { Resource("pdf_stream", file) }
                      /\ pdf_bytes' = pdf_bytes
                      /\ live' = live \cup { Resource("pdf_stream", file) }
                 ELSE /\ pdf_reader' = { Resource("pdf_bytes", file) }
                      /\ pdf_bytes' = { Resource("pdf_bytes", file) }
                      /\ live' = live \cup { Resource("image_file", file),
                                             Resource("pdf_bytes", file) }
              /\ UNCHANGED << pc, exc >>
         ELSE /\ exc' = r.exc
              /\ pc' = "raised"
              /\ pdf_reader' = { }
              /\ pdf_bytes' = { }
              /\ UNCHANGED << pdf_writer, idx, live >>
  /\ UNCHANGED << fs, mode, runs, call, ret, cli_vars, directory, save_path, image_dpi,
                  input_files, hist_vars >>

\* lines 90-92: the save path is opened for writing, which creates or
\* truncates it; the document is written; the path is returned.  The write
\* itself may fail (a full disk), which leaves a truncated file.
WriteOutput ==
  /\ LET p == The(save_path)
     IN  IF OpenWrite(fs, p) # "none"
         THEN /\ exc' = OpenWrite(fs, p)
              /\ pc' = "raised"
              /\ UNCHANGED << fs, ret, written, first >>
         ELSE /\ written' = written \cup { p }
              /\ \/ /\ fs' = WithFile(fs, p, FileNode("pdf", pdf_writer))
                    /\ ret' = { p }
                    /\ first' = IF runs = 1 THEN { Len(pdf_writer) } ELSE first
                    /\ pc' = "returned"
                    /\ UNCHANGED exc
                 \/ /\ fs' = WithFile(fs, p, FileNode("junk", << >>))
                    /\ exc' = "OSError"
                    /\ pc' = "raised"
                    /\ UNCHANGED << ret, first >>
  /\ pdf_reader' = { }
  /\ pdf_bytes' = { }
  /\ UNCHANGED << mode, runs, call, cli_vars, frame_vars, live, fs0 >>

\* lines 90-92 indented into the body of the file loop
WriteInsideLoop ==
  /\ pc = "loop"
  /\ WriteOutput

\* the statements after the file loop are reached when the loop has ended
Write ==
  /\ pc = "loop"
  /\ ~HasNext
  /\ WriteOutput

(***************************************************************************)
(* The runtime and the caller.                                             *)
(***************************************************************************)
\* the resources no local refers to
Garbage == live \ (pdf_reader \cup pdf_bytes)

\* the garbage collector releases the resources nothing refers to; the
\* program itself closes none of them
Collect ==
  /\ Garbage # { }
  /\ live' = live \ Garbage
  /\ UNCHANGED << fs, mode, pc, runs, call, exc, ret, cli_vars, frame_vars,
                  pdf_reader, pdf_bytes, hist_vars >>

\* whether the invocation has ended
Ended ==
  \/ mode = "api" /\ pc \in { "returned", "raised" }
  \/ mode = "cli" /\ pc \in { "exit", "escaped" }

\* the same invocation is made again, by a new process, on the filesystem
\* as it is now
Rerun ==
  /\ Ended
  /\ runs < MaxRuns
  /\ runs' = runs + 1
  /\ pc' = IF mode = "api" THEN "enter" ELSE "parse"
  /\ call' = IF mode = "api" THEN call ELSE NoCall
  /\ stdin' = stdin0
  /\ args' = NoArgs
  /\ input_directory' = { }
  /\ output_pdf' = { }
  /\ prompts' = << >>
  /\ stdout' = << >>
  /\ calls' = 0
  /\ directory' = { }
  /\ save_path' = { }
  /\ image_dpi' = { }
  /\ pdf_writer' = << >>
  /\ input_files' = << >>
  /\ idx' = 1
  /\ live' = { }
  /\ exc' = "none"
  /\ ret' = { }
  /\ fs0' = fs
  /\ written' = { }
  /\ UNCHANGED << fs, mode, argv, stdin0, pdf_reader, pdf_bytes, first >>

Next ==
  \/ ParseArgs
  \/ MainBranch
  \/ PromptInput
  \/ PromptOutput
  \/ MainCall
  \/ PrintSuccess
  \/ HandleException
  \/ Enter
  \/ Scan
  \/ ProcessFile
  \/ Write
  \/ Collect
  \/ Rerun

Spec == Init /\ [][Next]_vars

(***************************************************************************)
(* What the claims speak of, stated from the filesystem as it was when     *)
(* convert_files_to_pdf was entered (fs0) and from the arguments.          *)
(***************************************************************************)
\* convert_files_to_pdf has been entered in this run
Entered == directory # { }

\* the entries of the input directory with one of the four extensions,
\* upper or lower case
Matching ==
  { p \in Children(fs0, The(directory)) :
      \E e \in valid_extensions :
        /\ Len(PathName(p)) > Len(e)
        /\ Lower(SubSeq(PathName(p), Len(PathName(p)) - Len(e) + 1, Len(PathName(p)))) = e }

\* the k-th smallest of a set of paths
Nth(set, k) == CHOOSE p \in set : Cardinality({ q \in set : PathLess(q, p) }) = k - 1

\* the matching entries in ascending order
SortedMatching ==
  LET m == Matching
  IN  [k \in 1..Cardinality(m) |-> Nth(m, k)]

\* the pages a file contributes: its own when its name ends in .pdf in
\* either case, else the one page of its rasterization at resolution dpi
SourcePages(p, dpi) ==
  LET name == PathName(p)
      n == Len(name)
  IN  IF n > 4 /\ Lower(SubSeq(name, n - 3, n)) = << ".", "p", "d", "f" >>
      THEN fs0[p].pages
      ELSE << Page(p, 1, dpi) >>

\* the pages of the first n files of a sequence, in order
RECURSIVE ConcatenatedOf(_, _, _)
ConcatenatedOf(files, n, dpi) ==
  IF n = 0 THEN << >>
  ELSE ConcatenatedOf(files, n - 1, dpi) \o SourcePages(files[n], dpi)

\* the pages of the first n matching files, in ascending order
Concatenated(n, dpi) == ConcatenatedOf(SortedMatching, n, dpi)

\* input_files is ascending
Ascending(seq) == \A i \in 1..(Len(seq) - 1) : PathLess(seq[i], seq[i + 1])

(***************************************************************************)
(* C1.  While the file loop runs and after it, the writer holds the pages  *)
(* of the files before the loop's position, file by file in the sorted     *)
(* order of the matching entries: all pages of a PDF in their order, one   *)
(* page for an image.  The document written is that of all the files; a    *)
(* directory holding one N-page PDF gives N pages in the source's order.   *)
(***************************************************************************)
C1_PagesInFileOrder ==
  (Entered /\ pc \in { "loop", "returned" }) =>
     /\ pdf_writer = Concatenated(idx - 1, The(image_dpi))
     /\ pc = "returned" =>
          LET m == Matching
          IN  /\ idx = Cardinality(m) + 1
              /\ fs[The(save_path)].pages = pdf_writer
              /\ \A p \in m :
                   (m = { p } /\ fs0[p].fmt = "pdf") => fs[The(save_path)].pages = fs0[p].pages

\* C1, witness: a run that merged an image and a PDF of two pages, the PDF
\* first
C1_Witness ==
  /\ pc = "returned"
  /\ Len(input_files) = 2
  /\ Len(pdf_writer) = 3
  /\ pdf_writer[1].dpi = 0
  /\ pdf_writer[3].dpi # 0

(***************************************************************************)
(* C2.  After the scan, input_files holds exactly the entries of the       *)
(* directory with a matching extension, in ascending order, and none of    *)
(* them is a directory.                                                    *)
(***************************************************************************)
C2_ScanFilesOnly ==
  (Entered /\ pc = "loop") =>
     /\ { input_files[i] : i \in 1..Len(input_files) } = Matching
     /\ Len(input_files) = Cardinality(Matching)
     /\ Ascending(input_files)
     /\ \A i \in 1..Len(input_files) : fs0[input_files[i]].kind # "dir"

\* C2, the part that holds: the matching entries, each once, ascending,
\* whatever order the directory was enumerated in
C2_ScanMatchingSorted ==
  (Entered /\ pc = "loop") =>
     /\ { input_files[i] : i \in 1..Len(input_files) } = Matching
     /\ Len(input_files) = Cardinality(Matching)
     /\ Ascending(input_files)

(***************************************************************************)
(* C3.  The filesystem changes only in the step after the file loop, when  *)
(* every scanned file has been read and its pages added, and then only at  *)
(* the save path: a failure of the scan or of a file leaves no new file    *)
(* and leaves an existing one as it was, and what is written as a PDF is   *)
(* never a part of the document.  A failure of the scan or of a file ends  *)
(* the call with that exception and without a return value.                *)
(***************************************************************************)
C3_WriteOnlyAfterAllRead ==
  [][ /\ (fs' # fs \/ written' \ written # { }) =>
            /\ pc = "loop"
            /\ idx = Len(input_files) + 1
            /\ pdf_writer = Concatenated(Cardinality(Matching), The(image_dpi))
            /\ \A p \in DOMAIN fs : fs'[p] # fs[p] => p = The(save_path)
            /\ DOMAIN fs' \subseteq DOMAIN fs \cup save_path
            /\ fs'[The(save_path)].fmt = "pdf" => fs'[The(save_path)].pages = pdf_writer
      /\ (pc' = "raised" /\ (pc = "scan" \/ (pc = "loop" /\ idx <= Len(input_files)))) =>
            /\ exc' # "none"
            /\ ret' = { }
            /\ fs' = fs
            /\ fs = fs0
            /\ written' = { } ]_vars

\* C3, witness: a corrupt image after a good file: pages were collected, the run
\* failed, and the file that was at the save path is as it was
C3_Witness ==
  /\ pc = "raised"
  /\ exc = "UnidentifiedImageError"
  /\ pdf_writer # << >>
  /\ HasNext
  /\ save_path = { << out, r_pdf >> }
  /\ fs = fs0
  /\ written = { }

(***************************************************************************)
(* C4.  A second run of the same invocation that returns wrote as many     *)
(* pages as the first run did.                                             *)
(***************************************************************************)
C4_SecondRunSamePageCount ==
  (runs >= 2 /\ pc = "returned" /\ first # { }) => Len(pdf_writer) = The(first)

\* C4, the part that holds: when the save path is no matching entry of
\* the input directory
C4_OutsideInputSamePageCount ==
  (runs >= 2 /\ pc = "returned" /\ first # { } /\ The(save_path) \notin Matching)
     => Len(pdf_writer) = The(first)

(***************************************************************************)
(* C5.  The save path is the one given, or, when that is a directory as    *)
(* the call starts, the file <name of the input directory>                 *)
(* _combined_output.pdf in it (out/ and photos give                        *)
(* out/photos_combined_output.pdf); nothing but this path is opened for    *)
(* writing, and it is the value returned.                                  *)
(***************************************************************************)
C5_ResolvedSavePath ==
  Entered =>
    LET d == ensure_path(The(call.directory))
        s == ensure_path(The(call.save_path))
        suffix == << "_", "c", "o", "m", "b", "i", "n", "e", "d",
                     "_", "o", "u", "t", "p", "u", "t", ".", "p", "d", "f" >>
        resolved == IF s \in DOMAIN fs0 /\ fs0[s].kind = "dir"
                    THEN s \o << (IF d = << >> THEN << >> ELSE d[Len(d)]) \o suffix >>
                    ELSE s
    IN  /\ save_path = { resolved }
        /\ written \subseteq { resolved }
        /\ pc = "returned" => (ret = { resolved } /\ written = { resolved })
        /\ (d = << photos >> /\ s = << out >>) => resolved = << out, photos \o suffix >>

\* C5, witness: out/ and photos: the run returned out/photos_combined_output.pdf
C5_Witness ==
  /\ pc = "returned"
  /\ call.save_path = { StrArg(out \o slash) }
  /\ ret = { << out, DEFAULT_OUTPUT_FILENAME(photos) >> }
  /\ << out, DEFAULT_OUTPUT_FILENAME(photos) >> \notin DOMAIN fs0
  /\ << out, DEFAULT_OUTPUT_FILENAME(photos) >> \in DOMAIN fs

(***************************************************************************)
(* C6.  When the input directory exists and holds no matching entry, the   *)
(* scan gives the empty list and the run returns, having written a         *)
(* document of no pages to the resolved save path, which it returns.       *)
(***************************************************************************)
\* the input directory exists and none of its entries matches
EmptyInput == Entered /\ is_dir(fs0, The(directory)) /\ Matching = { }

\* C6 as stated: such a run raises nothing
C6_EmptyInputNeverFails ==
  (EmptyInput /\ pc \in { "loop", "returned", "raised" }) =>
     /\ input_files = << >>
     /\ pc # "raised"
     /\ pc = "returned" =>
          /\ fs[The(save_path)] = FileNode("pdf", << >>)
          /\ ret = save_path

\* C6 as amended: such a run raises nothing before the save path is opened;
\* it fails only when opening the save path fails, with that error and the
\* filesystem as it was, or when the write to the opened file fails; and
\* when it returns it has written a document of no pages to the resolved
\* save path, which it returns
C6_EmptyInputWritesEmptyDocument ==
  (EmptyInput /\ pc \in { "loop", "returned", "raised" }) =>
     /\ input_files = << >>
     /\ pdf_writer = << >>
     /\ pc = "raised" =>
          \/ /\ OpenWrite(fs0, The(save_path)) # "none"
             /\ exc = OpenWrite(fs0, The(save_path))
             /\ fs = fs0
          \/ /\ OpenWrite(fs0, The(save_path)) = "none"
             /\ exc = "OSError"
             /\ written = save_path
     /\ pc = "returned" =>
          /\ OpenWrite(fs0, The(save_path)) = "none"
          /\ fs[The(save_path)] = FileNode("pdf", << >>)
          /\ \A p \in DOMAIN fs0 : p # The(save_path) => fs[p] = fs0[p]
          /\ ret = save_path

\* C6, witness: a directory that holds entries, none of them matching, was merged into
\* a document of no pages
C6_Witness ==
  /\ EmptyInput
  /\ Children(fs0, The(directory)) # { }
  /\ pc = "returned"
  /\ fs[The(save_path)] = FileNode("pdf", << >>)
  /\ ret = save_path

(***************************************************************************)
(* C7.  A run of main prints one result line and returns: the success      *)
(* line with the returned path, or the error line with the exception.      *)
(***************************************************************************)
\* C7 as stated: every run of main that ends has returned normally
\* with exactly one line printed
C7_AlwaysOneLine ==
  (mode = "cli" /\ pc \in { "exit", "escaped" }) => (pc = "exit" /\ Len(stdout) = 1)

\* C7 as amended: a run that ends has either returned with exactly one line,
\* the success line with the returned path when convert_files_to_pdf
\* returned and otherwise the error line with the text of the exception,
\* which was an Exception; or it was ended by a KeyboardInterrupt, which
\* main does not catch, with no line printed.  No line is printed before
\* the end.
C7_OneLineUnlessInterrupted ==
  mode = "cli" =>
     /\ pc # "exit" => stdout = << >>
     /\ pc = "exit" =>
          /\ Len(stdout) = 1
          /\ exc = "none"
          /\ \/ /\ ret # { }
                /\ stdout[1] = [text |-> "PDF created successfully: ", path |-> ret, exc |-> "none"]
             \/ /\ ret = { }
                /\ stdout[1].text = "An error occurred: "
                /\ stdout[1].path = { }
                /\ stdout[1].exc \notin { "none", "KeyboardInterrupt" }
     /\ pc = "escaped" => exc = "KeyboardInterrupt"

\* C7, witness: the pipeline raised and main printed the error line
C7_Witness ==
  /\ mode = "cli"
  /\ pc = "exit"
  /\ calls = 1
  /\ stdout = << [text |-> "An error occurred: ", path |-> { }, exc |-> "UnidentifiedImageError"] >>

(***************************************************************************)
(* C8.  With both flags given main reads no prompt and passes the flags;   *)
(* otherwise it reads the two prompts, input directory first, and passes   *)
(* what it read.  convert_files_to_pdf is called at most once, and not     *)
(* before the values are there.                                            *)
(***************************************************************************)
TwoPrompts == << "Input directory Path: ", "Output PDF Path: " >>

\* C8 as stated: the mode is decided by the flags being given
C8_FlagsGivenNoPrompt ==
  (mode = "cli" /\ argv.input # { } /\ argv.output # { }) =>
     /\ prompts = << >>
     /\ calls = 1 => call = [directory |-> { StrArg(The(argv.input)) },
                             save_path |-> { StrArg(The(argv.output)) },
                             image_dpi |-> call.image_dpi]

\* C8 as amended: the mode is decided by both flags being given and not
\* empty; a flag given as the empty string counts as missing
C8_TwoModes ==
  mode = "cli" =>
     /\ calls <= 1
     /\ calls = 0 => (call = NoCall /\ ~Entered)
     /\ IF argv.input # { } /\ The(argv.input) # << >> /\ argv.output # { } /\ The(argv.output) # << >>
        THEN /\ prompts = << >>
             /\ stdin = stdin0
             /\ calls = 1 => /\ call.directory = { StrArg(The(argv.input)) }
                             /\ call.save_path = { StrArg(The(argv.output)) }
        ELSE /\ Len(prompts) <= 2
             /\ prompts = SubSeq(TwoPrompts, 1, Len(prompts))
             /\ pc \notin { "parse", "main", "prompt_input" } => prompts # << >>
             /\ calls = 1 => /\ prompts = TwoPrompts
                             /\ Len(stdin0) >= 2
                             /\ call.directory = { StrArg(stdin0[1]) }
                             /\ call.save_path = { StrArg(stdin0[2]) }

\* C8, witness: the input flag was given, the output flag was not: both prompts were
\* read and the directory passed is the prompted one, not the flag's
C8_Witness ==
  /\ mode = "cli"
  /\ argv.input = { photos }
  /\ argv.output = { }
  /\ calls = 1
  /\ prompts = TwoPrompts
  /\ call.directory = { StrArg(nodir) }

(***************************************************************************)
(* C9.  Every image is rasterized with the resolution the caller gave, and *)
(* with 300 when it gave none: the image_dpi argument of a direct call,    *)
(* the --dpi flag of the command line, which is never prompted for.        *)
(***************************************************************************)
\* the resolution the caller gave, 300 when it gave none
GivenDpi ==
  LET given == IF mode = "api" THEN call.image_dpi ELSE argv.dpi
  IN  IF given = { } THEN 300 ELSE The(given)

C9_DpiPassedThrough ==
  /\ image_dpi \subseteq { GivenDpi }
  /\ Entered => image_dpi = { GivenDpi }
  /\ \A i \in 1..Len(pdf_writer) :
       pdf_writer[i].dpi # 0 => pdf_writer[i].dpi = GivenDpi
  /\ \A i \in 1..Len(prompts) : prompts[i] \in { TwoPrompts[1], TwoPrompts[2] }
  /\ (mode = "cli" /\ calls = 1) => call.image_dpi = { GivenDpi }

\* C9, witness: a direct call without image_dpi rasterized an image at 300
C9_Witness ==
  /\ mode = "api"
  /\ call.image_dpi = { }
  /\ pc = "returned"
  /\ \E i \in 1..Len(pdf_writer) : pdf_writer[i] = Page(<< photos, a_png >>, 1, 300)

(***************************************************************************)
(* C10.  When an iteration of the file loop starts, no resource acquired   *)
(* by an earlier iteration is still held.                                  *)
(***************************************************************************)
C10_ReleasedBeforeNextFile ==
  (pc = "loop" /\ HasNext) => live = { }

\* C10, a weaker statement that fails as well: when an iteration starts, no
\* local still refers to an unreleased resource of an earlier iteration
C10_NoReferenceBeforeNextFile ==
  (pc = "loop" /\ HasNext) => (pdf_reader \cup pdf_bytes) \cap live = { }

=============================================================================
